---- MODULE Spec2Model ----
(***************************************************************************)
(* Cross-entropy-method training loop of                                   *)
(* Chapter01/06_neural_evolutionary_agent.ipynb.                           *)
(*                                                                         *)
(* Rewards are integers.  A reward threshold is a rational with            *)
(* denominator 100 and is carried as its numerator (hundredths), so that   *)
(* the linear interpolation of np.percentile is exact for integer          *)
(* percentiles.  numpy arrays are functions on 0..d-1, Python lists are    *)
(* sequences.  A call's outcome is a record: kind "return" or "raise".     *)
(***************************************************************************)
EXTENDS Integers, Sequences, FiniteSets, TLC

VARIABLES call, ret, pc, env, brain, i, mean_rewards,
          elite_reward_thresholds, trajectories, obs, observations, actions,
          episode_reward, done, action, action_logits, elite_obs,
          elite_actions, elite_threshold, elite_action_distributions,
          episode_log

vars == <<call, ret, pc, env, brain, i, mean_rewards,
          elite_reward_thresholds, trajectories, obs, observations, actions,
          episode_reward, done, action, action_logits, elite_obs,
          elite_actions, elite_threshold, elite_action_distributions,
          episode_log>>

trainVars == <<pc, env, brain, i, mean_rewards,
               elite_reward_thresholds, trajectories, obs, observations,
               actions, episode_reward, done, action, action_logits,
               elite_obs, elite_actions, elite_threshold,
               elite_action_distributions, episode_log>>

\* ------------------------------------------------------------- bounds
MaxTraj == 3
MaxLen == 2
MaxEpochs == 2
MaxRollouts == 2
MaxSteps == 2

\* ------------------------------------------------- program constants
\* def gen_action_distribution(action_index, action_dim=5)
DefaultActionDim == 5

\* ------------------------------------------------------------ helpers
Pending == [kind |-> "pending"]
Raise(exc) == [kind |-> "raise", exc |-> exc]

\* sum(...) over a sequence of integers
RECURSIVE SumSeq(_)
SumSeq(s) == IF s = <<>> THEN 0 ELSE Head(s) + SumSeq(Tail(s))

\* [item for items in lists for item in items]
RECURSIVE Unpack(_)
Unpack(lists) == IF lists = <<>> THEN <<>> ELSE Head(lists) \o Unpack(Tail(lists))

\* insertion of x into the ascending sequence s
RECURSIVE Insert(_, _)
Insert(x, s) ==
    IF s = <<>> THEN <<x>>
    ELSE IF x <= Head(s) THEN <<x>> \o s
    ELSE <<Head(s)>> \o Insert(x, Tail(s))

\* the ascending order np.percentile puts the data in
RECURSIVE Sorted(_)
Sorted(s) == IF s = <<>> THEN <<>> ELSE Insert(Head(s), Sorted(Tail(s)))

\* (variant: the nearest order statistic instead of the interpolation)
PercentileNearest(a, q) ==
    LET s == Sorted(a)
        n == Len(a)
        pos == (n - 1) * q
        lo == pos \div 100
        g == pos % 100
        hi == IF lo + 1 < n THEN lo + 1 ELSE lo
    IN  IF 2 * g < 100 THEN 100 * s[lo + 1] ELSE 100 * s[hi + 1]

\* np.percentile(a, q), default method "linear", in hundredths:
\* virtual index (n-1)*q/100, lower order statistic plus the fractional
\* part times the gap to the next one.
Percentile(a, q) ==
    LET s == Sorted(a)
        n == Len(a)
        pos == (n - 1) * q
        lo == pos \div 100
        g == pos % 100
        hi == IF lo + 1 < n THEN lo + 1 ELSE lo
    IN  100 * s[lo + 1] + (s[hi + 1] - s[lo + 1]) * g

\* (variants: a strict comparison, a flipped comparison)
MeetsStrict(value, reward_threshold) == 100 * value > reward_threshold

MeetsBelow(value, reward_threshold) == 100 * value <= reward_threshold

\* value >= reward_threshold, the threshold in hundredths
Meets(value, reward_threshold) == 100 * value >= reward_threshold

\* [index for index, value in enumerate(trajectory_rewards)
\*  if value >= reward_threshold], from position k on
RECURSIVE EliteIndicesFrom(_, _, _)
EliteIndicesFrom(rewards, reward_threshold, k) ==
    IF k > Len(rewards) THEN <<>>
    ELSE (IF Meets(rewards[k], reward_threshold) THEN <<k>> ELSE <<>>)
         \o EliteIndicesFrom(rewards, reward_threshold, k + 1)

\* (variant: the chosen items in reverse order)
PickReversed(items, indices) ==
    [k \in 1..Len(indices) |-> items[indices[Len(indices) + 1 - k]]]

\* [items[i] for i in indices]
Pick(items, indices) == [k \in 1..Len(indices) |-> items[indices[k]]]

\* gather_elite_xp(trajectories, elitism_criterion)
GatherEliteXp(trajs, elitism_criterion) ==
    IF Len(trajs) = 0
    THEN Raise("ValueError")      \* zip(*[]) yields nothing to unpack into 3
    ELSE IF elitism_criterion < 0 \/ elitism_criterion > 100
    THEN Raise("ValueError")      \* np.percentile: must be in [0, 100]
    ELSE
    LET trajectory_obs == [k \in 1..Len(trajs) |-> trajs[k].obs]
        trajectory_actions == [k \in 1..Len(trajs) |-> trajs[k].actions]
        trajectory_rewards == [k \in 1..Len(trajs) |-> trajs[k].reward]
        reward_threshold == Percentile(trajectory_rewards, elitism_criterion)
        indices == EliteIndicesFrom(trajectory_rewards, reward_threshold, 1)
    IN  [kind |-> "return",
         elite_obs |-> Unpack(Pick(trajectory_obs, indices)),
         elite_actions |-> Unpack(Pick(trajectory_actions, indices)),
         reward_threshold |-> reward_threshold]

\* (variant: the 1 lands one place further on)
GenActionDistributionShifted(action_index, action_dim) ==
    IF action_index >= action_dim \/ action_index < -action_dim
    THEN Raise("IndexError")
    ELSE LET at == IF action_index < 0 THEN action_dim + action_index
                   ELSE action_index
         IN  [kind |-> "return",
              val |-> [k \in 0..(action_dim - 1) |->
                         IF k = (at + 1) % action_dim THEN 1 ELSE 0]]

\* gen_action_distribution(action_index, action_dim): numpy indexing
\* counts a negative index from the end and raises outside [-dim, dim).
GenActionDistribution(action_index, action_dim) ==
    IF action_index >= action_dim \/ action_index < -action_dim
    THEN Raise("IndexError")
    ELSE LET at == IF action_index < 0 THEN action_dim + action_index
                   ELSE action_index
         IN  [kind |-> "return",
              val |-> [k \in 0..(action_dim - 1) |->
                         IF k = at THEN 1 ELSE 0]]

\* tf.math.log of one score: finite for a positive score, -inf for zero,
\* NaN for a negative one
Log(x) == IF x > 0 THEN "finite" ELSE IF x = 0 THEN "-inf" ELSE "nan"

\* tf.random.categorical(logits, num_samples=1): the indices it can draw.
\* A class with logit -inf has probability 0.  With a NaN logit, or with no
\* finite logit at all, the distribution is undefined and the kernel's
\* answer is any index, the out-of-range index Len included.
Categorical(logits) ==
    LET n == Cardinality(DOMAIN logits)
        finite == {k \in DOMAIN logits : logits[k] = "finite"}
    IN  IF (\E k \in DOMAIN logits : logits[k] = "nan") \/ finite = {}
        THEN 0..n
        ELSE finite

\* Agent.policy_mlp: the actions it can return for the scores the brain
\* emits (Brain.call returns the last Dense layer's output as it is)
PolicyMlp(scores) == Categorical([k \in DOMAIN scores |-> Log(scores[k])])

\* np.mean(batch_rewards), as numerator and denominator
Mean(rewards) == [num |-> SumSeq(rewards), den |-> Len(rewards)]

\* .astype("float16") of an integer of magnitude up to 4096: exact up to
\* 2048, beyond it the nearest even integer, a tie going to the multiple
\* of 4
AsFloat16(x) ==
    LET m == IF x < 0 THEN 0 - x ELSE x
        r == IF m <= 2048 \/ m % 2 = 0 THEN m
             ELSE IF (m - 1) % 4 = 0 THEN m - 1 ELSE m + 1
    IN  IF x < 0 THEN 0 - r ELSE r

\* ------------------------------------------------ idle training state
NoValue == <<>>

TrainIdle ==
    /\ pc = "idle"
    /\ env = [action_space_n |-> 0, status |-> "none", resets |-> 0,
              steps |-> 0, closes |-> 0, t |-> 0]
    /\ brain = [action_dim |-> 0, fit_calls |-> 0, params |-> 0]
    /\ i = 0
    /\ mean_rewards = <<>>
    /\ elite_reward_thresholds = <<>>
    /\ trajectories = <<>>
    /\ obs = NoValue
    /\ observations = <<>>
    /\ actions = <<>>
    /\ episode_reward = 0
    /\ done = FALSE
    /\ action = 0
    /\ action_logits = NoValue
    /\ elite_obs = <<>>
    /\ elite_actions = <<>>
    /\ elite_threshold = 0
    /\ elite_action_distributions = <<>>
    /\ episode_log = <<>>

\* ------------------------------------- gather_elite_xp on its own
\* Percentiles tried: the ends, the default 70, interior ones, and one
\* outside [0, 100].
Criteria == {0, 25, 50, 70, 100, 101}
RewardValues == {1, 5, 9}

\* Trajectory j of a batch: its steps carry the observations <<j, t>>.
MkTrajectory(j, len, reward) ==
    [obs |-> [t \in 1..len |-> <<j, t>>],
     actions |-> [t \in 1..len |-> (j + t) % DefaultActionDim],
     reward |-> reward]

Batches ==
    UNION {
      {[j \in 1..n |-> MkTrajectory(j, lens[j], rews[j])] :
          lens \in [1..n -> 1..MaxLen], rews \in [1..n -> RewardValues]}
      : n \in 0..MaxTraj}

InitGather ==
    /\ call \in {[fn |-> "gather_elite_xp", trajectories |-> b,
                  elitism_criterion |-> q] : b \in Batches, q \in Criteria}
    /\ ret = Pending
    /\ TrainIdle

CallGatherEliteXp ==
    /\ call.fn = "gather_elite_xp"
    /\ ret = Pending
    /\ ret' = GatherEliteXp(call.trajectories, call.elitism_criterion)
    /\ UNCHANGED <<call, trainVars>>

SpecGather == InitGather /\ [][CallGatherEliteXp]_vars

\* ------------------------------ gen_action_distribution on its own
MaxActionDim == 6

InitEncode ==
    /\ call \in {[fn |-> "gen_action_distribution", action_index |-> a,
                  action_dim |-> d] :
                    a \in (0 - MaxActionDim - 1)..(MaxActionDim + 1),
                    d \in 1..MaxActionDim}
    /\ ret = Pending
    /\ TrainIdle

CallGenActionDistribution ==
    /\ call.fn = "gen_action_distribution"
    /\ ret = Pending
    /\ ret' = GenActionDistribution(call.action_index, call.action_dim)
    /\ UNCHANGED <<call, trainVars>>

SpecEncode == InitEncode /\ [][CallGenActionDistribution]_vars

\* ---------------------------------------------- Agent.get_action alone
ScoreValues == {-1, 0, 1}

InitAgent ==
    /\ call \in {[fn |-> "get_action", action_logits |-> v] :
                    v \in UNION {[0..(n - 1) -> ScoreValues] :
                                   n \in 1..MaxActionDim}}
    /\ ret = Pending
    /\ TrainIdle

\* Agent.get_action -> self.policy = policy_mlp; nothing in it raises
CallGetAction ==
    /\ call.fn = "get_action"
    /\ ret = Pending
    /\ \E a \in PolicyMlp(call.action_logits) :
          ret' = [kind |-> "return", val |-> a]
    /\ UNCHANGED <<call, trainVars>>

SpecAgent == InitAgent /\ [][CallGetAction]_vars

\* ------------------------------------------------- the environment
\* gym.make(env_id): one instance, its action space of size n
EnvMake(n) ==
    [action_space_n |-> n, status |-> "made", resets |-> 0, steps |-> 0,
     closes |-> 0, t |-> 0]

\* the observation the environment shows at step t of its current episode
EnvObservation(e) == <<e.resets, e.t>>

\* env.reset()
EnvReset(e) == [e EXCEPT !.status = "running", !.resets = @ + 1, !.t = 0]

\* env.step(action) with the done flag it reports
EnvStep(e, d) ==
    [e EXCEPT !.status = IF d THEN "done" ELSE "running",
              !.steps = @ + 1, !.t = @ + 1]

\* env.close()
EnvClose(e) == [e EXCEPT !.status = "closed", !.closes = @ + 1]

\* the reward of a step: the environments tried pay 1 for every step
\* survived, so that an episode's reward is its length
EnvReward(a) == 1

\* ------------------------------------------------------------- train
\* environments by the size of their action space, around the default
ActionSpaceSizes == (DefaultActionDim - 1)..(DefaultActionDim + 1)
TrainCriteria == {70, 101}

\* scores the brain emits for n actions: all the mass on the first action,
\* on the last one, or shared by the two
Scores(n) ==
    {[k \in 0..(n - 1) |-> IF k \in on THEN 1 ELSE 0] :
        on \in {{0}, {n - 1}, {0, n - 1}}}

InitTrain ==
    /\ call \in {[fn |-> "train", action_space_n |-> n,
                  num_trajectory_rollouts |-> r, elitism_criterion |-> q,
                  num_epochs |-> e] :
                    n \in ActionSpaceSizes, r \in (0 - 1)..MaxRollouts,
                    q \in TrainCriteria, e \in (0 - 1)..MaxEpochs}
    /\ ret = Pending
    /\ pc = "train"
    /\ env = [action_space_n |-> 0, status |-> "none", resets |-> 0,
              steps |-> 0, closes |-> 0, t |-> 0]
    /\ brain = [action_dim |-> 0, fit_calls |-> 0, params |-> 0]
    /\ i = 0
    /\ mean_rewards = <<>>
    /\ elite_reward_thresholds = <<>>
    /\ trajectories = <<>>
    /\ obs = NoValue
    /\ observations = <<>>
    /\ actions = <<>>
    /\ episode_reward = 0
    /\ done = FALSE
    /\ action = 0
    /\ action_logits = NoValue
    /\ elite_obs = <<>>
    /\ elite_actions = <<>>
    /\ elite_threshold = 0
    /\ elite_action_distributions = <<>>
    /\ episode_log = <<>>

rolloutVars == <<obs, observations, actions, episode_reward, done, action,
                 action_logits>>
eliteVars == <<elite_obs, elite_actions, elite_threshold,
               elite_action_distributions>>
historyVars == <<mean_rewards, elite_reward_thresholds>>

\* rollout's frame is gone once it has returned
RolloutLocalsGone ==
    /\ obs' = NoValue
    /\ observations' = <<>>
    /\ actions' = <<>>
    /\ episode_reward' = 0
    /\ done' = FALSE
    /\ action' = 0
    /\ action_logits' = NoValue

\* the epoch's batches are not read again after agent.learn and the
\* statistics: the next epoch rebinds every one of them (the record of
\* the last episode goes with them)
EpochLocalsDead ==
    /\ trajectories' = <<>>
    /\ elite_obs' = <<>>
    /\ elite_actions' = <<>>
    /\ elite_threshold' = 0
    /\ elite_action_distributions' = <<>>
    /\ episode_log' = <<>>

\* lines 246-250: the environment, the agent built for its action space,
\* the two empty histories
TrainSetup ==
    /\ pc = "train"
    /\ env' = EnvMake(call.action_space_n)
    /\ brain' = [action_dim |-> call.action_space_n, fit_calls |-> 0,
                 params |-> 0]
    /\ mean_rewards' = <<>>
    /\ elite_reward_thresholds' = <<>>
    /\ i' = 0
    /\ pc' = "for_epoch"
    /\ UNCHANGED <<call, ret, trajectories, rolloutVars, eliteVars,
                   episode_log>>

\* (variant: one epoch too many)
EpochsRemainInclusive(done_epochs, num_epochs) == done_epochs <= num_epochs

\* for i in range(num_epochs), i epochs done so far
EpochsRemain(done_epochs, num_epochs) == done_epochs < num_epochs

\* line 251: the next epoch, or the end of the loop
ForEpoch ==
    /\ pc = "for_epoch"
    /\ IF EpochsRemain(i, call.num_epochs)
       THEN /\ trajectories' = <<>>
            /\ pc' = "for_rollout"
       ELSE /\ pc' = "plot"
            /\ UNCHANGED trajectories
    /\ UNCHANGED <<call, ret, env, brain, i, historyVars, rolloutVars,
                   eliteVars, episode_log>>

\* lines 252-254 and 150-152: the next rollout starts with env.reset(),
\* or the list of trajectories is complete
ForRollout ==
    /\ pc = "for_rollout"
    /\ IF Len(trajectories) < call.num_trajectory_rollouts
       THEN /\ env' = EnvReset(env)
            /\ obs' = EnvObservation(env')
            /\ episode_reward' = 0
            /\ done' = FALSE
            /\ observations' = <<>>
            /\ actions' = <<>>
            /\ episode_log' = <<>>
            /\ pc' = "while"
       ELSE /\ pc' = "gather"
            /\ UNCHANGED <<env, obs, episode_reward, done, observations,
                           actions, episode_log>>
    /\ UNCHANGED <<call, ret, brain, i, historyVars, trajectories, action,
                   action_logits, eliteVars>>

\* (variant: the loop never looks at done)
LoopContinuesAlways(is_done) == TRUE

\* while not done
LoopContinues(is_done) == ~is_done

\* (variant: the observation returned by the step is saved)
ObservationSavedNext(pre_step_obs, next_obs) == next_obs

\* observations.append(np.array(obs).reshape(-1)): the observation the
\* action was chosen from, not the one env.step returned
ObservationSaved(pre_step_obs, next_obs) == pre_step_obs

\* lines 153-154: agent.get_action(obs) on the scores the brain emits
GetAction ==
    /\ pc = "while"
    /\ LoopContinues(done)
    /\ \E scores \in Scores(brain.action_dim) :
          /\ action_logits' = scores
          /\ action' \in PolicyMlp(scores)
    /\ episode_log' = Append(episode_log,
          [obs |-> obs, action |-> action', reward |-> 0,
           next_obs |-> NoValue])
    /\ pc' = "step"
    /\ UNCHANGED <<call, ret, env, brain, i, historyVars, trajectories, obs,
                   observations, actions, episode_reward, done, eliteVars>>

\* lines 155-164: env.step(action), then the pre-step observation, the
\* action and the reward are recorded
Step ==
    /\ pc = "step"
    /\ \E d \in BOOLEAN :
          /\ env.t + 1 >= MaxSteps => d
          /\ env' = EnvStep(env, d)
          /\ observations' =
                Append(observations, ObservationSaved(obs, EnvObservation(env')))
          /\ actions' = Append(actions, action)
          /\ episode_reward' = episode_reward + EnvReward(action)
          /\ obs' = EnvObservation(env')
          /\ done' = d
          /\ episode_log' =
                [episode_log EXCEPT ![Len(episode_log)] =
                    [@ EXCEPT !.reward = EnvReward(action),
                              !.next_obs = EnvObservation(env')]]
    /\ action_logits' = NoValue
    /\ pc' = "while"
    /\ UNCHANGED <<call, ret, brain, i, historyVars, trajectories, action,
                   eliteVars>>

\* lines 167-168 and 253: env.close(), and the rollout's result becomes
\* the next Trajectory
RolloutReturn ==
    /\ pc = "while"
    /\ ~LoopContinues(done)
    /\ env' = EnvClose(env)
    /\ trajectories' = Append(trajectories,
          [obs |-> observations, actions |-> actions,
           reward |-> episode_reward])
    /\ RolloutLocalsGone
    /\ pc' = "for_rollout"
    /\ UNCHANGED <<call, ret, brain, i, historyVars, eliteVars, episode_log>>

\* lines 255-258: the rewards are unzipped (which fails on an empty list)
\* and the elite batch is gathered
Gather ==
    /\ pc = "gather"
    /\ LET r == IF Len(trajectories) = 0 THEN Raise("ValueError")
                ELSE GatherEliteXp(trajectories, call.elitism_criterion)
       IN  IF r.kind = "raise"
           THEN /\ ret' = r
                /\ pc' = "raised"
                /\ UNCHANGED eliteVars
           ELSE /\ elite_obs' = r.elite_obs
                /\ elite_actions' = r.elite_actions
                /\ elite_threshold' = r.reward_threshold
                /\ pc' = "encode"
                /\ UNCHANGED <<ret, elite_action_distributions>>
    /\ UNCHANGED <<call, env, brain, i, historyVars, trajectories,
                   rolloutVars, episode_log>>

\* lines 259-265: every elite action is encoded with the default
\* action_dim, then both batches go to float16
Encode ==
    /\ pc = "encode"
    /\ LET d == [k \in 1..Len(elite_actions) |->
                   GenActionDistribution(elite_actions[k], DefaultActionDim)]
       IN  IF \E k \in 1..Len(d) : d[k].kind = "raise"
           THEN /\ ret' = Raise("IndexError")
                /\ pc' = "raised"
                /\ UNCHANGED elite_action_distributions
           ELSE /\ elite_action_distributions' =
                      [k \in 1..Len(d) |->
                         [j \in DOMAIN d[k].val |-> AsFloat16(d[k].val[j])]]
                /\ pc' = "learn"
                /\ UNCHANGED ret
    /\ UNCHANGED <<call, env, brain, i, historyVars, trajectories,
                   rolloutVars, elite_obs, elite_actions, elite_threshold,
                   episode_log>>

\* lines 266-273 and 100-101: agent.learn -> brain.fit, which rejects
\* targets whose width is not the brain's output width; then the epoch's
\* statistics are appended
Learn ==
    /\ pc = "learn"
    /\ IF \E k \in 1..Len(elite_action_distributions) :
             Cardinality(DOMAIN elite_action_distributions[k]) # brain.action_dim
       THEN /\ brain' = [brain EXCEPT !.fit_calls = @ + 1]
            /\ ret' = Raise("ValueError")
            /\ pc' = "raised"
            /\ UNCHANGED <<i, historyVars, trajectories, eliteVars,
                           episode_log>>
       ELSE /\ brain' = [brain EXCEPT !.fit_calls = @ + 1, !.params = @ + 1]
            /\ mean_rewards' = Append(mean_rewards,
                  Mean([k \in 1..Len(trajectories) |-> trajectories[k].reward]))
            /\ elite_reward_thresholds' =
                  Append(elite_reward_thresholds, elite_threshold)
            /\ i' = i + 1
            /\ EpochLocalsDead
            /\ pc' = "for_epoch"
            /\ UNCHANGED ret
    /\ UNCHANGED <<call, env, rolloutVars>>

\* lines 275-279: the two histories are plotted; train has no return
\* statement
Plot ==
    /\ pc = "plot"
    /\ ret' = [kind |-> "return", type |-> "NoneType"]
    /\ pc' = "done"
    /\ UNCHANGED <<call, env, brain, i, historyVars, trajectories,
                   rolloutVars, eliteVars, episode_log>>

Next ==
    \/ TrainSetup
    \/ ForEpoch
    \/ ForRollout
    \/ GetAction
    \/ Step
    \/ RolloutReturn
    \/ Gather
    \/ Encode
    \/ Learn
    \/ Plot

Spec == InitTrain /\ [][Next]_vars

\* ====================================================== claims C1..C6
Returned == ret.kind = "return"
GatherReturned == call.fn = "gather_elite_xp" /\ Returned
Batch == call.trajectories
BatchRewards == [j \in 1..Len(Batch) |-> Batch[j].reward]

\* the observations of trajectory j that the returned batch holds
StepsKept(j) == {k \in 1..Len(ret.elite_obs) : ret.elite_obs[k][1] = j}

\* C1: gather_elite_xp keeps a trajectory if and only if its reward is >=
\* the returned threshold: every step of a trajectory at or above the
\* threshold is in the returned batch, no step of a trajectory below it
\* is, and the returned actions are as many as the returned observations.
C1_EliteIffAtLeastThreshold ==
    GatherReturned =>
        /\ \A j \in 1..Len(Batch) :
              IF 100 * Batch[j].reward >= ret.reward_threshold
              THEN \A t \in 1..Len(Batch[j].obs) :
                      \E k \in StepsKept(j) : ret.elite_obs[k] = <<j, t>>
              ELSE StepsKept(j) = {}
        /\ Len(ret.elite_actions) = Len(ret.elite_obs)
        /\ Len(ret.elite_obs) =
              SumSeq([j \in 1..Len(Batch) |->
                        IF 100 * Batch[j].reward >= ret.reward_threshold
                        THEN Len(Batch[j].obs) ELSE 0])

C1_Witness ==
    /\ GatherReturned
    /\ \E j \in 1..Len(Batch) : 100 * Batch[j].reward < ret.reward_threshold
    /\ \E j \in 1..Len(Batch) : 100 * Batch[j].reward = ret.reward_threshold
    /\ \E j \in 1..Len(Batch) : 100 * Batch[j].reward > ret.reward_threshold

\* the k-th smallest reward (k from 0), by counting
OrderStatistic(rewards, k) ==
    CHOOSE v \in {rewards[j] : j \in 1..Len(rewards)} :
        /\ Cardinality({j \in 1..Len(rewards) : rewards[j] < v}) <= k
        /\ Cardinality({j \in 1..Len(rewards) : rewards[j] <= v}) > k

\* C2: the returned threshold is the percentile by linear interpolation
\* between the two closest order statistics (the weights are the distances
\* of the virtual index (n-1)*q/100 from them); for rewards [1, 5, 9] and
\* percentile 70 it is 6.6 and only the trajectory with reward 9 is elite.
C2_ThresholdIsInterpolatedPercentile ==
    GatherReturned =>
        LET n == Len(Batch)
            pos == (n - 1) * call.elitism_criterion
            below == pos \div 100
            frac == pos % 100
            above == IF frac = 0 THEN below ELSE below + 1
        IN  /\ ret.reward_threshold =
                  (100 - frac) * OrderStatistic(BatchRewards, below)
                  + frac * OrderStatistic(BatchRewards, above)
            /\ (BatchRewards = <<1, 5, 9>> /\ call.elitism_criterion = 70) =>
                  /\ ret.reward_threshold = 660
                  /\ ret.elite_obs = Batch[3].obs
                  /\ ret.elite_actions = Batch[3].actions

C2_Witness ==
    /\ GatherReturned
    /\ BatchRewards = <<1, 5, 9>>
    /\ call.elitism_criterion = 70
    /\ ret.reward_threshold = 660

\* C3: for a non-empty batch and a percentile in [0, 100] some trajectory
\* meets the threshold and the returned batch is not empty; when all the
\* rewards are one r, the threshold is r and every trajectory is kept.
C3_EliteNeverEmpty ==
    (call.fn = "gather_elite_xp" /\ ret # Pending /\ Len(Batch) > 0
     /\ call.elitism_criterion \in 0..100) =>
        /\ Returned
        /\ \E j \in 1..Len(Batch) : 100 * Batch[j].reward >= ret.reward_threshold
        /\ Len(ret.elite_obs) > 0
        /\ (\A j \in 1..Len(Batch) : Batch[j].reward = Batch[1].reward) =>
              /\ ret.reward_threshold = 100 * Batch[1].reward
              /\ \A j \in 1..Len(Batch) :
                    Cardinality(StepsKept(j)) = Len(Batch[j].obs)

C3_Witness ==
    /\ GatherReturned
    /\ Len(Batch) >= 2
    /\ \A j \in 1..Len(Batch) : Batch[j].reward = Batch[1].reward
    /\ Len(ret.elite_obs) > 0

\* C4: the returned observations are those of the kept trajectories in the
\* original trajectory order, each trajectory's steps in their order, and
\* the k-th returned action is the action taken at the k-th returned
\* observation; two elite trajectories T1, T2 give T1.obs ++ T2.obs and
\* T1.actions ++ T2.actions.
C4_ConcatenationKeepsOrder ==
    GatherReturned =>
        /\ Len(ret.elite_actions) = Len(ret.elite_obs)
        /\ \A k \in 1..Len(ret.elite_obs) :
              LET o == ret.elite_obs[k]
              IN  /\ ret.elite_actions[k] = Batch[o[1]].actions[o[2]]
                  /\ k > 1 =>
                       LET p == ret.elite_obs[k - 1]
                       IN  \/ (p[1] = o[1] /\ o[2] = p[2] + 1)
                           \/ (p[1] < o[1] /\ o[2] = 1
                               /\ p[2] = Len(Batch[p[1]].obs))
        /\ (Len(Batch) = 2
            /\ \A j \in 1..2 : 100 * Batch[j].reward >= ret.reward_threshold) =>
              /\ ret.elite_obs = Batch[1].obs \o Batch[2].obs
              /\ ret.elite_actions = Batch[1].actions \o Batch[2].actions

C4_Witness ==
    /\ GatherReturned
    /\ Len(Batch) = 2
    /\ \A j \in 1..2 : Len(Batch[j].obs) = 2
    /\ Len(ret.elite_obs) = 4

EncodeCalled == call.fn = "gen_action_distribution" /\ ret # Pending

\* C5: for action_dim >= 1 and 0 <= a < action_dim,
\* gen_action_distribution(a, action_dim) returns a vector of length
\* action_dim with a 1 at index a and 0 everywhere else.
C5_OneHot ==
    (EncodeCalled /\ call.action_index \in 0..(call.action_dim - 1)) =>
        /\ Returned
        /\ DOMAIN ret.val = 0..(call.action_dim - 1)
        /\ ret.val[call.action_index] = 1
        /\ \A k \in DOMAIN ret.val : k # call.action_index => ret.val[k] = 0

C5_Witness ==
    /\ EncodeCalled
    /\ Returned
    /\ call.action_dim >= 2
    /\ call.action_index = call.action_dim - 1

\* C6: gen_action_distribution fails for every action index outside
\* [0, action_dim), the negative indices in [-action_dim, -1] included.
C6_FailsOutsideRange ==
    (EncodeCalled /\ call.action_index \notin 0..(call.action_dim - 1)) =>
        ret.kind = "raise"

\* ===================================================== claims C7..C10
TrainCalled == call.fn = "train"

InvalidConfiguration ==
    \/ call.elitism_criterion \notin 0..100
    \/ call.num_trajectory_rollouts <= 0
    \/ call.num_epochs <= 0
    \/ (pc # "train" /\ brain.action_dim # env.action_space_n)

\* C8: train called with an invalid configuration ends in a fatal error
\* reported before the first environment reset or step: it never finishes
\* normally and never touches the environment.
C8_InvalidConfigurationFatalBeforeRollout ==
    (TrainCalled /\ InvalidConfiguration) =>
        /\ env.resets = 0
        /\ env.steps = 0
        /\ pc # "done"

\* C9: whenever the approximator emits a non-positive score for some
\* action, get_action returns no action: the call ends in an error.
C9_NonPositiveScoreIsFatal ==
    (call.fn = "get_action" /\ ret # Pending
     /\ \E k \in DOMAIN call.action_logits : call.action_logits[k] <= 0) =>
        ret.kind = "raise"

\* C10: for num_epochs >= 1 and num_trajectory_rollouts >= 1 (and a valid
\* percentile) train raises nothing and runs exactly num_epochs epochs;
\* fit has been invoked, and the parameters changed, exactly once per
\* finished epoch, and only after all num_trajectory_rollouts rollouts of
\* the epoch, each begun by its own reset.
C10_ExactEpochsRolloutsThenLearn ==
    (TrainCalled /\ call.num_epochs >= 1 /\ call.num_trajectory_rollouts >= 1
     /\ call.elitism_criterion \in 0..100 /\ pc # "train") =>
        /\ pc # "raised"
        /\ brain.params = i
        /\ brain.fit_calls = i
        /\ i <= call.num_epochs
        /\ Len(mean_rewards) = i
        /\ pc \in {"gather", "encode", "learn"} =>
              /\ Len(trajectories) = call.num_trajectory_rollouts
              /\ env.resets = (i + 1) * call.num_trajectory_rollouts
        /\ pc \in {"plot", "done"} =>
              /\ i = call.num_epochs
              /\ env.resets = call.num_epochs * call.num_trajectory_rollouts
              /\ env.closes = env.resets

\* ============================================================ claim C11
\* C11: in every epoch each elite action is encoded into a target
\* distribution as long as the environment's action space (the action_dim
\* the Agent was built with) with a 1 at the index of that action and 0
\* elsewhere, and the k-th distribution handed to agent.learn belongs to the
\* k-th elite observation; the encoding of an elite action never fails.
C11_TargetsMatchActionSpace ==
    TrainCalled =>
        /\ ~(pc = "raised" /\ ret.exc = "IndexError")
        /\ pc = "learn" =>
              /\ Len(elite_action_distributions) = Len(elite_obs)
              /\ Len(elite_action_distributions) = Len(elite_actions)
              /\ \A k \in 1..Len(elite_action_distributions) :
                    /\ DOMAIN elite_action_distributions[k] =
                          0..(env.action_space_n - 1)
                    /\ env.action_space_n = brain.action_dim
                    /\ \A a \in DOMAIN elite_action_distributions[k] :
                          elite_action_distributions[k][a] =
                             IF a = elite_actions[k] THEN 1 ELSE 0

\* ============================================================ claim C12
\* episode_log records, for the episode last begun, each call
\* get_action(obs) -> action and what env.step(action) then returned.
LastTrajectory == trajectories[Len(trajectories)]
RolloutReturned ==
    /\ TrainCalled
    /\ pc \in {"for_rollout", "gather", "encode", "learn", "raised"}
    /\ Len(trajectories) > 0

\* C12: an episode that ends after n >= 1 steps yields a trajectory of n
\* observations and n actions; the k-th observation is the one the k-th
\* action was sampled from (the first is the reset observation, the one
\* returned by the last step is not stored), and the reward is the sum of
\* the n step rewards.
C12_TrajectoryHoldsPreStepObservations ==
    RolloutReturned =>
        LET n == Len(episode_log)
        IN  /\ n >= 1
            /\ n = env.t
            /\ Len(LastTrajectory.obs) = n
            /\ Len(LastTrajectory.actions) = n
            /\ \A k \in 1..n :
                  /\ LastTrajectory.obs[k] = episode_log[k].obs
                  /\ LastTrajectory.actions[k] = episode_log[k].action
                  /\ LastTrajectory.obs[k] # episode_log[n].next_obs
                  /\ k > 1 => episode_log[k].obs = episode_log[k - 1].next_obs
            /\ LastTrajectory.obs[1] = <<env.resets, 0>>
            /\ LastTrajectory.reward =
                  SumSeq([k \in 1..n |-> episode_log[k].reward])

C12_Witness ==
    /\ RolloutReturned
    /\ pc = "for_rollout"
    /\ Len(trajectories) >= 2
    /\ Len(LastTrajectory.obs) >= 2
    /\ LastTrajectory.actions[1] # LastTrajectory.actions[2]

\* ============================================================ claim C13
\* C13: the environment calls of a train run come in blocks reset, one or
\* more step, close: reset is called only on the fresh or the closed
\* environment with every earlier block closed, step only while the block
\* has not reported done, close only right after the step that reported
\* done and once, and the one environment made at the start is the one
\* reset again; outside a rollout every block is closed.
C13_ResetStepsClose ==
    /\ [](TrainCalled =>
            /\ pc \notin {"train", "while", "step"} =>
                  /\ env.status \in {"made", "closed"}
                  /\ env.closes = env.resets
            /\ env.status = "closed" => env.steps >= env.closes)
    /\ [][TrainCalled =>
            /\ env'.resets # env.resets =>
                  /\ env.status \in {"made", "closed"}
                  /\ env.closes = env.resets
                  /\ env' = [env EXCEPT !.status = "running",
                                        !.resets = @ + 1, !.t = 0]
            /\ env'.steps # env.steps =>
                  /\ env.status = "running"
                  /\ env'.status \in {"running", "done"}
                  /\ env'.steps = env.steps + 1
                  /\ env'.resets = env.resets
                  /\ env'.closes = env.closes
            /\ env'.closes # env.closes =>
                  /\ env.status = "done"
                  /\ env.t >= 1
                  /\ env'.status = "closed"
                  /\ env'.closes = env.closes + 1
                  /\ env'.closes = env.resets
                  /\ env'.steps = env.steps
            /\ env.status = "done" =>
                  \/ env' = env
                  \/ env'.closes = env.closes + 1
            /\ env'.action_space_n # env.action_space_n => pc = "train"
            /\ env'.status = "made" => env.status \in {"none", "made"}
       ]_vars

C13_Witness ==
    /\ TrainCalled
    /\ env.resets = 2
    /\ env.closes = 1
    /\ env.steps >= 3
    /\ env.t = 1
    /\ env.status = "running"

====
